---- MODULE Spec2Model ----
(***************************************************************************)
(* Model of iperf3/udp_timeseries_iperf3.py: the bidirectional UDP         *)
(* measurement script (uplink through the iperf3 CLI with the embedded     *)
(* server transcript, downlink through the iperf3 library), its interval   *)
(* extractor, its transcript parser and its summary builder.               *)
(*                                                                         *)
(* Number representation.  Python floats are modelled by integers:         *)
(*   - times (interval "end", duration, timestamps) in ticks of 1/10 s     *)
(*     (TicksPerSec), so that the 0.5 s slack is 5 ticks;                   *)
(*   - bandwidth_bps in bits per second, always a multiple of 10^6 here,   *)
(*     so that the division by 1e6 is exact;                               *)
(*   - jitter (ms) and loss (%) as whole numbers;                          *)
(*   - every field of a Direction Summary in units of 1/Den, where Den is  *)
(*     the least common multiple of the possible sample counts: a mean     *)
(*     sum/n is then the integer (sum * Den) / n, exactly;                 *)
(*   - the standard deviation as the integer square root (floor) of the    *)
(*     exact population variance scaled by Den^2.                          *)
(* Python dicts are functions whose DOMAIN is the set of keys present.     *)
(***************************************************************************)
EXTENDS Integers, Sequences, FiniteSets, TLC

\* ---------------------------------------------------------------- bounds
MaxIntervals == 2   \* interval reports in one structured report
MaxLines == 2       \* lines of the server transcript in a whole run
MaxStreams == 2     \* per-stream sub-records in one interval report
MaxText == 3        \* lines of a transcript given to the uplink collector alone

\* ------------------------------------------------------- units and helpers
TicksPerSec == 10
BpsPerMbps == 1000000

Max2(a, b) == IF a >= b THEN a ELSE b

RECURSIVE Gcd(_, _)
Gcd(a, b) == IF b = 0 THEN a ELSE Gcd(b, a % b)

RECURSIVE LcmUpTo(_)
LcmUpTo(n) == IF n <= 1 THEN 1 ELSE (LcmUpTo(n - 1) * n) \div Gcd(LcmUpTo(n - 1), n)

\* Denominator of the summary's fixed-point numbers.
Den == LcmUpTo(Max2(Max2(MaxIntervals, MaxLines), MaxText))

\* float(x) of a whole number, as a summary field.
Float(x) == x * Den

RECURSIVE SumSeq(_)
SumSeq(xs) == IF xs = <<>> THEN 0 ELSE Head(xs) + SumSeq(Tail(xs))

RECURSIVE MinSeq(_)
MinSeq(xs) == IF Len(xs) = 1 THEN xs[1]
              ELSE LET m == MinSeq(Tail(xs)) IN IF xs[1] <= m THEN xs[1] ELSE m

RECURSIVE MaxSeq(_)
MaxSeq(xs) == IF Len(xs) = 1 THEN xs[1]
              ELSE LET m == MaxSeq(Tail(xs)) IN IF xs[1] >= m THEN xs[1] ELSE m

RECURSIVE ISqrtFrom(_, _)
ISqrtFrom(n, r) == IF (r + 1) * (r + 1) > n THEN r ELSE ISqrtFrom(n, r + 1)

\* floor of the square root
ISqrt(n) == ISqrtFrom(n, 0)

\* ------------------------------------------------------------ Python dicts
EmptyDict == [k \in {} |-> 0]

\* None; the code only ever tests such a value for truth, where None and {}
\* (and []) behave alike.
None == EmptyDict

\* bool(d) of a dict or a list
Truthy(d) == DOMAIN d # {}

\* d.get(k, default)
Get(d, k, default) == IF k \in DOMAIN d THEN d[k] ELSE default

\* a or b
Or(a, b) == IF Truthy(a) THEN a ELSE b

\* ------------------------------------------------------- statistics (4-8)
\* _safe_mean with -1.0 standing for "no data".
_safe_mean_nodata(xs) == IF Len(xs) > 0 THEN (SumSeq(xs) * Den) \div Len(xs) ELSE 0 - Den

\* _safe_mean with the division by the count forgotten.
_safe_mean_undivided(xs) == IF Len(xs) > 0 THEN SumSeq(xs) * Den ELSE 0

\* mean(xs) if xs else 0.0
_safe_mean(xs) == IF Len(xs) > 0 THEN (SumSeq(xs) * Den) \div Len(xs) ELSE 0

\* n^2 times the population variance: n * sum(x^2) - sum(x)^2
SumSq(xs) == SumSeq([i \in 1..Len(xs) |-> xs[i] * xs[i]])

PVarianceNum(xs) == Len(xs) * SumSq(xs) - SumSeq(xs) * SumSeq(xs)

\* pstdev with the sample-corrected divisor N - 1 (statistics.stdev).
stdev(xs) == ISqrt((Den * Den * PVarianceNum(xs)) \div (Len(xs) * (Len(xs) - 1)))

\* statistics.pstdev: the square root of the variance with divisor N
pstdev(xs) == ISqrt(((Den \div Len(xs)) * (Den \div Len(xs))) * PVarianceNum(xs))

\* pstdev(xs) if len(xs) > 1 else 0.0
_safe_pstdev(xs) == IF Len(xs) > 1 THEN pstdev(xs) ELSE 0

\* ------------------------------------------- Interval Extractor (34-60)
\* Cand with the generic aggregate tried before the receiver aggregate.
CandGenericFirst(it, prefer_receiver) ==
    IF prefer_receiver
    THEN LET c == Or(Get(it, "sum", None), Get(it, "sum_received", None))
         IN  IF ~Truthy(c) THEN Get(it, "sum_sent", None) ELSE c
    ELSE Or(Or(Get(it, "sum_sent", None), Get(it, "sum", None)),
            Get(it, "sum_received", None))

\* The aggregate sub-record the extractor selects (lines 35-40); falsy when
\* none is usable.
Cand(it, prefer_receiver) ==
    IF prefer_receiver
    THEN LET c == Or(Get(it, "sum_received", None), Get(it, "sum", None))
         IN  IF ~Truthy(c) THEN Get(it, "sum_sent", None) ELSE c
    ELSE Or(Or(Get(it, "sum_sent", None), Get(it, "sum", None)),
            Get(it, "sum_received", None))

\* The tuple built from a sub-record (lines 42-47).
CandStats(cand) ==
    [end       |-> Get(cand, "end", 0),
     bps       |-> Get(cand, "bits_per_second", Get(cand, "bps", 0)),
     jitter_ms |-> Get(cand, "jitter_ms", 0),
     loss_pct  |-> Get(cand, "lost_percent", 0)]

\* float(x or 0.0) of a value that may still be None (line 59)
OrZero(opt) == IF opt = <<>> THEN 0 ELSE opt[1]

\* StreamSrc that falls back to the sender view when asked for the receiver's.
StreamSrcFallback(s, prefer_receiver) ==
    LET snd == Or(Get(s, "sender", EmptyDict), EmptyDict)
        rcv == Or(Get(s, "receiver", EmptyDict), EmptyDict)
    IN  IF prefer_receiver THEN Or(Or(rcv, snd), EmptyDict) ELSE Or(Or(snd, rcv), EmptyDict)

\* The view of one stream the fold reads (lines 52-54):
\* src = rcv if prefer_receiver else (snd or rcv) or {}
StreamSrc(s, prefer_receiver) ==
    LET snd == Or(Get(s, "sender", EmptyDict), EmptyDict)
        rcv == Or(Get(s, "receiver", EmptyDict), EmptyDict)
    IN  IF prefer_receiver THEN rcv ELSE Or(Or(snd, rcv), EmptyDict)

\* FoldStep with jitter and loss accumulated like the bandwidth.
FoldStepSumming(acc, src) ==
    [end       |-> Max2(acc.end, Get(src, "end", 0)),
     bps       |-> acc.bps + Get(src, "bits_per_second", Get(src, "bps", 0)),
     jitter_ms |-> IF "jitter_ms" \in DOMAIN src
                   THEN <<OrZero(acc.jitter_ms) + src["jitter_ms"]>> ELSE acc.jitter_ms,
     loss_pct  |-> IF "lost_percent" \in DOMAIN src
                   THEN <<OrZero(acc.loss_pct) + src["lost_percent"]>> ELSE acc.loss_pct]

\* One pass of the loop body (lines 55-58).  jitter_ms and loss_pct are
\* <<>> while None and <<v>> once set.
FoldStep(acc, src) ==
    [end       |-> Max2(acc.end, Get(src, "end", 0)),
     bps       |-> acc.bps + Get(src, "bits_per_second", Get(src, "bps", 0)),
     jitter_ms |-> IF acc.jitter_ms = <<>> /\ "jitter_ms" \in DOMAIN src
                   THEN <<src["jitter_ms"]>> ELSE acc.jitter_ms,
     loss_pct  |-> IF acc.loss_pct = <<>> /\ "lost_percent" \in DOMAIN src
                   THEN <<src["lost_percent"]>> ELSE acc.loss_pct]

RECURSIVE FoldStreams(_, _, _, _)
FoldStreams(streams, i, acc, prefer_receiver) ==
    IF i > Len(streams) THEN acc
    ELSE FoldStreams(streams, i + 1,
                     FoldStep(acc, StreamSrc(streams[i], prefer_receiver)),
                     prefer_receiver)

StreamStats(streams, prefer_receiver) ==
    LET acc == FoldStreams(streams, 1,
                           [end |-> 0, bps |-> 0, jitter_ms |-> <<>>, loss_pct |-> <<>>],
                           prefer_receiver)
    IN  [end |-> acc.end, bps |-> acc.bps,
         jitter_ms |-> OrZero(acc.jitter_ms), loss_pct |-> OrZero(acc.loss_pct)]

ZeroStats == [end |-> 0, bps |-> 0, jitter_ms |-> 0, loss_pct |-> 0]

_extract_interval_stats(it, prefer_receiver) ==
    LET cand == Cand(it, prefer_receiver)
        streams == Or(Get(it, "streams", None), <<>>)
    IN  IF Truthy(cand) THEN CandStats(cand)
        ELSE IF Truthy(streams) THEN StreamStats(streams, prefer_receiver)
        ELSE ZeroStats

\* ------------------------------------------------ Summary Builder (10-32)
Directions == {"uplink", "uplink_rx", "downlink"}

\* DirFilter matching the tag by prefix, so that "uplink" also takes "uplink_rx".
DirFilterPrefix(samples, direction) ==
    SelectSeq(samples, LAMBDA s : \/ s.direction = direction
                                  \/ direction = "uplink" /\ s.direction = "uplink_rx")

\* sdir = [s for s in samples if s.get("direction") == direction]
DirFilter(samples, direction) == SelectSeq(samples, LAMBDA s : s.direction = direction)

_direction_summary(samples, direction) ==
    LET sdir == DirFilter(samples, direction)
        mbps == [i \in 1..Len(sdir) |-> sdir[i].bandwidth_bps \div BpsPerMbps]
        jitter_ms == [i \in 1..Len(sdir) |-> sdir[i].jitter_ms]
        loss_pct == [i \in 1..Len(sdir) |-> sdir[i].loss_pct]
    IN  [num_samples    |-> Len(sdir),
         bandwidth_mbps |-> [avg |-> _safe_mean(mbps),
                             min |-> IF Len(mbps) > 0 THEN Float(MinSeq(mbps)) ELSE 0,
                             max |-> IF Len(mbps) > 0 THEN Float(MaxSeq(mbps)) ELSE 0,
                             std |-> _safe_pstdev(mbps)],
         avg_jitter_ms  |-> _safe_mean(jitter_ms),
         avg_loss_pct   |-> _safe_mean(loss_pct)]

build_summary(samples) ==
    [uplink    |-> _direction_summary(samples, "uplink"),
     uplink_rx |-> _direction_summary(samples, "uplink_rx"),
     downlink  |-> _direction_summary(samples, "downlink")]

\* --------------------------------------------- Text Report Parser (63-86)
\* A transcript is a sequence of lines and a line a sequence of tokens; the
\* white space between tokens is not represented.  Tokens:
\*   idx "[  5]", range "2.00-3.00" (ticks), num "10.5", frac "12/500",
\*   pct "(2.4%)", the units sec, MBytes, Mbits/sec, ms, and any other word.
\* Numerals are well-formed, so float() and int() of a captured group succeed.
TokIdx == [t |-> "idx"]
TokRange(a, b) == [t |-> "range", start |-> a, end |-> b]
TokNum(v) == [t |-> "num", v |-> v]
TokFrac(l, n) == [t |-> "frac", lost |-> l, total |-> n]
TokPct(v) == [t |-> "pct", v |-> v]
TokUnit(u) == [t |-> u]
TokWord(w) == [t |-> "word", w |-> w]

\* The token kinds of _RX_CLI_RECV_INTERVAL, in order (lines 64-66).
RxPattern == <<"idx", "range", "sec", "num", "MBytes", "num", "Mbits/sec",
               "num", "ms", "frac", "pct">>

\* The token kinds of the totals pattern (line 172).
TotalsPattern == <<"num", "Mbits/sec", "num", "ms", "frac", "pct">>

\* pattern matches the tokens of line from position i on
MatchesAt(line, i, pattern) ==
    /\ i + Len(pattern) - 1 <= Len(line)
    /\ \A k \in 1..Len(pattern) : line[i + k - 1].t = pattern[k]

\* Search with the end-of-line anchor forgotten.
SearchUnanchored(line, pattern, anchored) ==
    LET hits == {i \in 1..Len(line) : MatchesAt(line, i, pattern)}
    IN  IF hits = {} THEN 0 ELSE CHOOSE i \in hits : \A j \in hits : i <= j

\* re.search: the leftmost position where the pattern matches, 0 if none;
\* anchored says the pattern ends in \s*$.
Search(line, pattern, anchored) ==
    LET hits == {i \in 1..Len(line) :
                    /\ MatchesAt(line, i, pattern)
                    /\ anchored => i + Len(pattern) - 1 = Len(line)}
    IN  IF hits = {} THEN 0 ELSE CHOOSE i \in hits : \A j \in hits : i <= j

\* The point appended for a matched line (lines 76-85).
RxPoint(line, i) ==
    [start          |-> line[i + 1].start,
     end            |-> line[i + 1].end,
     bandwidth_mbps |-> line[i + 5].v,
     jitter_ms      |-> line[i + 7].v,
     loss_pct       |-> IF line[i + 9].total > 0 THEN line[i + 10].v ELSE 0]

RECURSIVE _parse_receiver_interval_lines(_)
_parse_receiver_interval_lines(text) ==
    IF text = <<>> THEN <<>>
    ELSE LET m == Search(Head(text), RxPattern, TRUE)
             rest == _parse_receiver_interval_lines(Tail(text))
         IN  IF m = 0 THEN rest ELSE <<RxPoint(Head(text), m)>> \o rest

\* "receiver" in line
MentionsReceiver(line) ==
    \E k \in 1..Len(line) : line[k].t = "word" /\ line[k].w = "receiver"

\* last_recv of lines 169-181: the last line mentioning the receiver decides.
TotalsOf(line) ==
    LET m == Search(line, TotalsPattern, FALSE)
    IN  IF m = 0 THEN None
        ELSE [bandwidth_mbps |-> line[m].v,
              jitter_ms      |-> line[m + 2].v,
              lost_packets   |-> line[m + 4].lost,
              packets        |-> line[m + 4].total,
              lost_percent   |-> line[m + 5].v]

\* LastRecv that goes on to earlier lines when a receiver line carries no totals.
RECURSIVE LastRecvSkipping(_, _)
LastRecvSkipping(lines, i) ==
    IF i = 0 THEN None
    ELSE IF MentionsReceiver(lines[i]) /\ Truthy(TotalsOf(lines[i])) THEN TotalsOf(lines[i])
    ELSE LastRecvSkipping(lines, i - 1)

RECURSIVE LastRecv(_, _)
LastRecv(lines, i) ==
    IF i = 0 THEN None
    ELSE IF MentionsReceiver(lines[i]) THEN TotalsOf(lines[i])
    ELSE LastRecv(lines, i - 1)

\* ------------------------------------------------------------------ state
VARIABLES
    pc,                 \* position of main / run_udp_bi, or of a call of the extractor alone
    duration,           \* --duration, whole seconds
    save_ul_raw,        \* whether --save-ul-raw names a path
    proc,               \* _ul_via_cli: the finished process p of line 100
    raw,                \* _ul_via_cli: the parsed structured report
    rx_points,          \* _ul_via_cli: the parsed transcript intervals
    samples_up_sender,  \* uplink samples from the structured intervals
    samples_up_rx,      \* uplink_rx samples from the transcript
    meta_up,            \* uplink metadata, with receiver_totals when found
    dl_result,          \* _dl_via_lib: what client.run() returned
    samples_down,       \* downlink samples
    meta_down,          \* downlink metadata
    samples,            \* run_udp_bi: the merged sample list
    summary,            \* run_udp_bi: the direction-keyed summary
    result,             \* what run_udp_bi returned
    files,              \* the files written so far
    error,              \* the message of the exception that ended the run, or ""
    it,                 \* the extractor called alone: the interval report
    prefer_receiver,    \* the extractor called alone: the flag
    stats               \* the extractor called alone: the returned tuple

vars == <<pc, duration, save_ul_raw, proc, raw, rx_points, samples_up_sender,
          samples_up_rx, meta_up, dl_result, samples_down, meta_down, samples,
          summary, result, files, error, it, prefer_receiver, stats>>

ulVars == <<raw, rx_points, samples_up_sender, samples_up_rx, meta_up>>
dlVars == <<dl_result, samples_down, meta_down>>
runVars == <<samples, summary, result>>
extractVars == <<it, prefer_receiver, stats>>

\* All sequences over S of length at most n.
SeqsUpTo(S, n) == UNION {[1..k -> S] : k \in 0..n}

\* ------------------------------------------- Direction Collectors (88-221)
\* One sample of a collector's loop (lines 118-125, 135-142, 206-213).
Sample(ts, direction, bps, jitter_ms, loss_pct) ==
    [timestamp |-> ts, direction |-> direction, bandwidth_bps |-> bps,
     jitter_ms |-> jitter_ms, loss_pct |-> loss_pct]

\* raw.get("start", {}).get("timestamp", {}).get("timesecs", time.time())
StartTs(r, now) ==
    Get(Get(Get(r, "start", EmptyDict), "timestamp", EmptyDict), "timesecs", now)

\* SenderSamples with the intervals that yield an all-zero tuple left out.
SenderSamplesSkipping(intervals, start_ts) ==
    LET good == SelectSeq(intervals,
                          LAMBDA x : _extract_interval_stats(x, FALSE) # ZeroStats)
    IN  [i \in 1..Len(good) |->
            LET st == _extract_interval_stats(good[i], FALSE)
            IN  Sample(start_ts + st.end, "uplink", st.bps, st.jitter_ms, st.loss_pct)]

\* Lines 113-125: one sample per interval report.
SenderSamples(intervals, start_ts) ==
    [i \in 1..Len(intervals) |->
        LET st == _extract_interval_stats(intervals[i], FALSE)
        IN  Sample(start_ts + st.end, "uplink", st.bps, st.jitter_ms, st.loss_pct)]

\* The slack of line 133, in ticks: 0.5 s.
Slack == 5

\* BeyondWindow without the slack.
BeyondWindowNoSlack(pt, d) == pt.end > d * TicksPerSec

\* Line 133: if pt["end"] > duration + 0.5: continue
BeyondWindow(pt, d) == pt.end > d * TicksPerSec + Slack

\* Lines 130-142: the transcript points within the test window.
RECURSIVE RxSamples(_, _, _)
RxSamples(points, d, start_ts) ==
    IF points = <<>> THEN <<>>
    ELSE LET pt == Head(points)
             rest == RxSamples(Tail(points), d, start_ts)
         IN  IF BeyondWindow(pt, d) THEN rest
             ELSE <<Sample(start_ts + pt.end, "uplink_rx",
                           pt.bandwidth_mbps * BpsPerMbps, pt.jitter_ms, pt.loss_pct)>>
                  \o rest

\* Lines 153-183: the metadata, with receiver_totals only when last_recv is truthy.
\* The entries that only copy a parameter (server, port, omit_s, blksize, ...)
\* are left out.
UlMeta(d, s_text) ==
    LET last_recv == LastRecv(s_text, Len(s_text))
        meta == [duration_s |-> d, reverse |-> FALSE,
                 server_output_text_present |-> Truthy(s_text)]
    IN  IF Truthy(last_recv) THEN ("receiver_totals" :> last_recv) @@ meta ELSE meta

\* Fail with the exception caught and the run going on.
FailAndGoOn(msg) ==
    /\ pc' = "ul_done"
    /\ error' = msg

\* A failed run: the exception leaves main.
Fail(msg) ==
    /\ pc' = "failed"
    /\ error' = msg

\* A captured stream is its text without the surrounding white space (body) and
\* whether one blank leads and a newline ends it (pad).
Text(pad, body) == [pad |-> pad, body |-> body]

\* t.strip()
Strip(t) == t.body

\* str(e) of the exception json.loads raises (line 105) on a text that does not
\* start a JSON value: the decoder names the place, never the text.
JsonError(t) ==
    IF t.pad THEN "Expecting value: line 1 column 2 (char 1)"
    ELSE "Expecting value: line 1 column 1 (char 0)"

\* _ul_via_cli (lines 88-185), called at line 224.  found is shutil.which's
\* answer, p the finished process, now the wall clock.
UlViaCli(Procs, Clock) ==
    /\ pc = "start"
    /\ \E found \in BOOLEAN, p \in Procs, now \in Clock :
        \/ /\ ~found
           /\ Fail(<<"iperf3 CLI not found in PATH; required for uplink run.">>)
           /\ UNCHANGED <<proc, ulVars, files>>
        \/ /\ found
           /\ p.returncode # 0
           /\ proc' = p
           /\ Fail(<<"iperf3 CLI uplink failed: ",
                     IF Strip(p.stderr) # "" THEN Strip(p.stderr) ELSE Strip(p.stdout.text)>>)
           /\ UNCHANGED <<ulVars, files>>
        \/ /\ found
           /\ p.returncode = 0
           /\ ~p.stdout.json
           /\ proc' = p
           /\ Fail(<<"iperf3 CLI uplink returned non-JSON output: ", JsonError(p.stdout.text)>>)
           /\ UNCHANGED <<ulVars, files>>
        \/ /\ found
           /\ p.returncode = 0
           /\ p.stdout.json
           /\ proc' = p
           /\ LET r == p.stdout.raw
                  intervals == Or(Get(r, "intervals", <<>>), <<>>)
                  start_ts == StartTs(r, now)
                  s_text == Or(Get(r, "server_output_text", None), <<>>)
                  points == _parse_receiver_interval_lines(s_text)
              IN  /\ raw' = r
                  /\ files' = IF save_ul_raw THEN files \cup {"ul_raw"} ELSE files
                  /\ samples_up_sender' = SenderSamples(intervals, start_ts)
                  /\ rx_points' = points
                  /\ samples_up_rx' = RxSamples(points, duration, start_ts)
                  /\ meta_up' = UlMeta(duration, s_text)
           /\ pc' = "ul_done"
           /\ UNCHANGED error
    /\ UNCHANGED <<duration, save_ul_raw, dlVars, runVars, extractVars>>

\* Lines 202-213: one downlink sample per interval report.
DownSamples(intervals, wall_start) ==
    [i \in 1..Len(intervals) |->
        LET st == _extract_interval_stats(intervals[i], TRUE)
        IN  Sample(wall_start + st.end, "downlink", st.bps, st.jitter_ms, st.loss_pct)]

\* _dl_via_lib (lines 187-221), called at line 227.  res is what client.run()
\* returned: its error text ("" for none) and its json (None when there is none).
DlViaLib(Results, Clock) ==
    /\ pc = "ul_done"
    /\ \E res \in Results, wall_start \in Clock :
        \/ /\ res.error # ""
           /\ dl_result' = res
           /\ Fail(<<"iperf3 DL error: ", res.error>>)
           /\ UNCHANGED <<samples_down, meta_down>>
        \/ /\ res.error = ""
           /\ LET r == Or(res.json, EmptyDict)
                  intervals == Or(Get(r, "intervals", <<>>), <<>>)
              IN  /\ dl_result' = res
                  /\ samples_down' = DownSamples(intervals, wall_start)
                  /\ meta_down' = [duration_s |-> duration, reverse |-> TRUE]
           /\ pc' = "dl_done"
           /\ UNCHANGED error
    /\ UNCHANGED <<duration, save_ul_raw, proc, ulVars, runVars, files, extractVars>>

\* ------------------------------------------------ Orchestrator (223-280)
\* ApplyOverride with the jitter and loss totals swapped.
ApplyOverrideSwapped(sm, meta) ==
    LET ul_recv == Get(meta, "receiver_totals", None)
    IN  IF Truthy(ul_recv)
        THEN [sm EXCEPT !.uplink.bandwidth_mbps.avg = Float(ul_recv.bandwidth_mbps),
                        !.uplink.avg_jitter_ms = Float(ul_recv.lost_percent),
                        !.uplink.avg_loss_pct = Float(ul_recv.jitter_ms)]
        ELSE sm

\* ApplyOverride that writes the total bandwidth over min and max as well.
ApplyOverrideAll(sm, meta) ==
    LET ul_recv == Get(meta, "receiver_totals", None)
    IN  IF Truthy(ul_recv)
        THEN [sm EXCEPT !.uplink.bandwidth_mbps.avg = Float(ul_recv.bandwidth_mbps),
                        !.uplink.bandwidth_mbps.min = Float(ul_recv.bandwidth_mbps),
                        !.uplink.bandwidth_mbps.max = Float(ul_recv.bandwidth_mbps),
                        !.uplink.avg_jitter_ms = Float(ul_recv.jitter_ms),
                        !.uplink.avg_loss_pct = Float(ul_recv.lost_percent)]
        ELSE sm

\* Lines 231-236: the uplink averages are replaced by the receiver totals.
ApplyOverride(sm, meta) ==
    LET ul_recv == Get(meta, "receiver_totals", None)
    IN  IF Truthy(ul_recv)
        THEN [sm EXCEPT !.uplink.bandwidth_mbps.avg = Float(ul_recv.bandwidth_mbps),
                        !.uplink.avg_jitter_ms = Float(ul_recv.jitter_ms),
                        !.uplink.avg_loss_pct = Float(ul_recv.lost_percent)]
        ELSE sm

\* Merge with the receiver-view block put first.
MergeRxFirst(up_sender, up_rx, down) == up_rx \o up_sender \o down

\* Line 228: samples = samples_up_sender + samples_up_rx + samples_down
Merge(up_sender, up_rx, down) == up_sender \o up_rx \o down

\* BuildSummary moved before the call of the downlink collector.
BuildSummaryEarly ==
    /\ pc = "ul_done"
    /\ samples' = Merge(samples_up_sender, samples_up_rx, samples_down)
    /\ summary' = build_summary(samples')
    /\ pc' = "summarised"
    /\ UNCHANGED <<duration, save_ul_raw, proc, ulVars, dlVars, result, files, error,
                   extractVars>>

\* Lines 228-229.
BuildSummary ==
    /\ pc = "dl_done"
    /\ samples' = Merge(samples_up_sender, samples_up_rx, samples_down)
    /\ summary' = build_summary(samples')
    /\ pc' = "summarised"
    /\ UNCHANGED <<duration, save_ul_raw, proc, ulVars, dlVars, result, files, error,
                   extractVars>>

\* Lines 231-236.
Override ==
    /\ pc = "summarised"
    /\ summary' = ApplyOverride(summary, meta_up)
    /\ pc' = "overridden"
    /\ UNCHANGED <<duration, save_ul_raw, proc, ulVars, dlVars, samples, result, files,
                   error, extractVars>>

\* {k: v for k, v in meta.items() if k != "reverse"} plus the direction
TestMeta(meta, direction) ==
    ("direction" :> direction) @@ [k \in DOMAIN meta \ {"reverse"} |-> meta[k]]

\* Lines 238-255.
Return ==
    /\ pc = "overridden"
    /\ result' = [metadata |-> [duration_s |-> duration,
                                tests |-> [uplink   |-> TestMeta(meta_up, "uplink"),
                                           downlink |-> TestMeta(meta_down, "downlink")]],
                  samples  |-> samples,
                  summary  |-> summary]
    /\ pc' = "returned"
    /\ UNCHANGED <<duration, save_ul_raw, proc, ulVars, dlVars, samples, summary, files,
                   error, extractVars>>

\* main, lines 278-280: the Run Result is written to --output.
WriteOutput ==
    /\ pc = "returned"
    /\ files' = files \cup {"output"}
    /\ pc' = "written"
    /\ UNCHANGED <<duration, save_ul_raw, proc, ulVars, dlVars, runVars, error, extractVars>>

\* A call of _extract_interval_stats on its own.
ExtractCall ==
    /\ pc = "extract_in"
    /\ stats' = _extract_interval_stats(it, prefer_receiver)
    /\ pc' = "extract_out"
    /\ UNCHANGED <<duration, save_ul_raw, proc, ulVars, dlVars, runVars, files, error,
                   it, prefer_receiver>>

\* ----------------------------------------------------------------- inputs
\* Aggregate sub-records: complete, with the short "bps" key and other keys
\* only, with no known key, empty.
AggA == [end |-> 10, bits_per_second |-> 1000000, jitter_ms |-> 1, lost_percent |-> 2]
AggB == [end |-> 20, bps |-> 3000000, packets |-> 7]
AggOther == [packets |-> 7]
Aggs == {EmptyDict, AggA, AggB, AggOther}

\* Per-stream views.
SndA == [end |-> 10, bits_per_second |-> 1000000, jitter_ms |-> 1, lost_percent |-> 2]
SndB == [end |-> 20, bps |-> 2000000]
RcvA == [end |-> 30, bits_per_second |-> 4000000, jitter_ms |-> 0, lost_percent |-> 0]
RcvB == [end |-> 5, bits_per_second |-> 8000000, jitter_ms |-> 3, lost_percent |-> 50]

\* A dict holding key k with one of the values vs, or not holding it.
Opt(k, vs) == {EmptyDict} \cup {k :> v : v \in vs}

\* Stream entries: sender and receiver views in every combination, and an
\* entry that carries its values directly.
StreamEntries ==
    {a @@ b : a \in Opt("sender", {EmptyDict, SndA, SndB}),
              b \in Opt("receiver", {EmptyDict, RcvA, RcvB})}
    \cup {[end |-> 40, bits_per_second |-> 16000000, jitter_ms |-> 5, lost_percent |-> 7]}

\* Interval reports decided by their aggregate sub-records.
AggReports ==
    {a @@ b @@ c @@ d : a \in Opt("sum_received", Aggs), b \in Opt("sum", Aggs),
                        c \in Opt("sum_sent", Aggs),
                        d \in Opt("streams", {<<[sender |-> SndA, receiver |-> RcvB]>>})}

\* Interval reports with no usable aggregate sub-record.
StreamReports ==
    {a @@ d : a \in {EmptyDict, [sum |-> EmptyDict],
                     [sum_received |-> EmptyDict, sum_sent |-> EmptyDict]},
              d \in {[streams |-> ss] : ss \in SeqsUpTo(StreamEntries, MaxStreams)}}

Reports == AggReports \cup StreamReports

\* Transcript lines.
IntervalLine(a, b, mbps, jit, lost, total, pct) ==
    <<TokIdx, TokRange(a, b), TokUnit("sec"), TokNum(1), TokUnit("MBytes"),
      TokNum(mbps), TokUnit("Mbits/sec"), TokNum(jit), TokUnit("ms"),
      TokFrac(lost, total), TokPct(pct)>>

LineIn == IntervalLine(0, 10, 2, 1, 1, 10, 10)
LineEdge == IntervalLine(15, 25, 4, 0, 0, 10, 0)
LineOut == IntervalLine(20, 30, 6, 2, 5, 10, 50)
LineNoPackets == IntervalLine(10, 15, 0, 0, 0, 0, 9)
LineNoPct == SubSeq(LineIn, 1, 10)
LinePrefixed == <<TokWord("iperf3:")>> \o IntervalLine(5, 15, 3, 1, 0, 10, 0)
LineTotals == IntervalLine(0, 20, 5, 4, 3, 20, 15) \o <<TokWord("receiver")>>
LineTotals2 == IntervalLine(0, 20, 7, 6, 1, 20, 5) \o <<TokWord("receiver")>>
LineSender == IntervalLine(0, 20, 9, 0, 0, 20, 0) \o <<TokWord("sender")>>
LineRecvBare == <<TokIdx, TokRange(0, 20), TokUnit("sec"), TokNum(1), TokUnit("MBytes"),
                  TokNum(5), TokUnit("Mbits/sec"), TokWord("receiver")>>
LineDiag == <<TokWord("Accepted"), TokWord("connection")>>

TextLines == {LineIn, LineEdge, LineOut, LineNoPackets, LineNoPct, LinePrefixed,
              LineTotals, LineTotals2, LineSender, LineRecvBare, LineDiag}

RunLines == {LineIn, LineOut, LineTotals}

\* Interval reports of a structured report.
ItSum == [sum |-> [end |-> 10, bits_per_second |-> 1000000, jitter_ms |-> 1,
                   lost_percent |-> 0]]
ItSum2 == [sum |-> [end |-> 20, bits_per_second |-> 3000000, jitter_ms |-> 2,
                    lost_percent |-> 50]]
ItPartial == [sum_sent |-> [end |-> 10, packets |-> 7]]
ItStreams == [streams |-> <<[sender |-> SndA], [sender |-> SndB, receiver |-> RcvB]>>]
ItDirect == [streams |-> <<[end |-> 40, bits_per_second |-> 16000000]>>]
ItUnknown == [omitted |-> EmptyDict]

RunIntervals == {ItSum, ItSum2, EmptyDict}
CollectorIntervals == {ItSum, ItSum2, ItPartial, ItStreams, ItDirect, ItUnknown, EmptyDict}
DownIntervals == {ItSum2, EmptyDict}

Started == [start |-> [timestamp |-> [timesecs |-> 500]]]

\* The structured report of an uplink run.
UlRaw(intervals, text) ==
    [intervals |-> intervals, server_output_text |-> text] @@ Started

\* Uplink reports of a whole run, of at most n intervals and m lines.
RunRaws(n, m) ==
    {UlRaw(ints, text) : ints \in SeqsUpTo(RunIntervals, n),
                         text \in SeqsUpTo(RunLines, m)}

\* Uplink reports given to the collector alone: every transcript of at most m
\* lines, every list of at most n interval shapes, and reports that lack a
\* section.
CollectorRaws(n, m) ==
    {UlRaw(<<ItSum>>, text) : text \in SeqsUpTo(TextLines, m)}
    \cup {UlRaw(ints, <<>>) : ints \in SeqsUpTo(CollectorIntervals, n)}
    \cup {EmptyDict, [intervals |-> <<ItSum>>], [server_output_text |-> <<LineIn>>]}

\* Finished uplink processes: a non-zero exit with a message on stderr, with a
\* blank stderr and a message on stdout, and with nothing at all; an exit of 0
\* with output that is not JSON; and a report.
UlProcs(Raws) ==
    {[returncode |-> 1, stderr |-> Text(TRUE, "unable to connect"),
      stdout |-> [text |-> Text(FALSE, ""), json |-> FALSE]],
     [returncode |-> 1, stderr |-> Text(TRUE, ""),
      stdout |-> [text |-> Text(TRUE, "error - server busy"), json |-> FALSE]],
     [returncode |-> 1, stderr |-> Text(FALSE, ""),
      stdout |-> [text |-> Text(FALSE, ""), json |-> FALSE]],
     [returncode |-> 0, stderr |-> Text(FALSE, ""),
      stdout |-> [text |-> Text(TRUE, "iperf 3.1"), json |-> FALSE]]}
    \cup {[returncode |-> 0, stderr |-> Text(FALSE, ""),
           stdout |-> [text |-> Text(TRUE, "report"), json |-> TRUE, raw |-> r]] : r \in Raws}

\* What client.run() returns for the downlink: an error, a result with neither
\* an error nor a report (the case line 201 provides for), a report without an
\* intervals section, and reports of at most n intervals.
DlResults(n) ==
    {[error |-> "unable to connect to server",
      json |-> [error |-> "unable to connect to server"]],
     [error |-> "", json |-> None],
     [error |-> "", json |-> Started]}
    \cup {[error |-> "", json |-> [intervals |-> ints]] :
              ints \in SeqsUpTo(DownIntervals, n)}

Durations == {1, 2}
WallClock == {1000}

\* -------------------------------------------------------- specifications
InitCommon ==
    /\ proc = None
    /\ raw = None
    /\ rx_points = <<>>
    /\ samples_up_sender = <<>>
    /\ samples_up_rx = <<>>
    /\ meta_up = None
    /\ dl_result = None
    /\ samples_down = <<>>
    /\ meta_down = None
    /\ samples = <<>>
    /\ summary = None
    /\ result = None
    /\ files = {}
    /\ error = <<>>

\* main before run_udp_bi is called.
Init ==
    /\ pc = "start"
    /\ duration \in Durations
    /\ save_ul_raw \in BOOLEAN
    /\ InitCommon
    /\ it = EmptyDict
    /\ prefer_receiver = FALSE
    /\ stats = ZeroStats

\* Line 224: the uplink collector runs first.
CallUl ==
    /\ pc = "start"
    /\ UlViaCli(UlProcs(RunRaws(MaxIntervals, MaxLines)), WallClock)

\* Line 227: the downlink collector runs once the uplink collector has returned.
CallDl ==
    /\ pc = "ul_done"
    /\ DlViaLib(DlResults(MaxIntervals), WallClock)

\* A whole run of main.
Next ==
    \/ CallUl
    \/ CallDl
    \/ BuildSummary
    \/ Override
    \/ Return
    \/ WriteOutput

Spec == Init /\ [][Next]_vars

\* The components on their own: the uplink collector on every transcript and
\* interval shape, and the Interval Extractor on every report shape and both
\* flags.
InitExtract ==
    /\ pc = "extract_in"
    /\ duration = 1
    /\ save_ul_raw = FALSE
    /\ InitCommon
    /\ it \in Reports
    /\ prefer_receiver \in BOOLEAN
    /\ stats = ZeroStats

InitParts == Init \/ InitExtract

\* A call of _ul_via_cli on its own.
CollectorCall ==
    /\ pc = "start"
    /\ UlViaCli(UlProcs(CollectorRaws(MaxIntervals, MaxText)), WallClock)

NextParts ==
    \/ CollectorCall
    \/ ExtractCall

SpecParts == InitParts /\ [][NextParts]_vars

\* ================================================================ claims
\* Helpers of the claims' statements.
AggKeys == {"sum_received", "sum", "sum_sent"}

\* The priority order of the aggregate sub-records for a flag.
AggOrder(flag) ==
    IF flag THEN <<"sum_received", "sum", "sum_sent">>
    ELSE <<"sum_sent", "sum", "sum_received">>

\* The values of a sub-record, zero where it omits them.
ZeroFilled(sub) ==
    [end       |-> IF "end" \in DOMAIN sub THEN sub["end"] ELSE 0,
     bps       |-> IF "bits_per_second" \in DOMAIN sub THEN sub["bits_per_second"]
                   ELSE IF "bps" \in DOMAIN sub THEN sub["bps"] ELSE 0,
     jitter_ms |-> IF "jitter_ms" \in DOMAIN sub THEN sub["jitter_ms"] ELSE 0,
     loss_pct  |-> IF "lost_percent" \in DOMAIN sub THEN sub["lost_percent"] ELSE 0]

\* The least element of a non-empty set of numbers.
Least(S) == CHOOSE x \in S : \A y \in S : x <= y

\* The greatest element of a non-empty set of numbers.
Greatest(S) == CHOOSE x \in S : \A y \in S : x >= y

HasAgg(r, k) == k \in DOMAIN r
HasUsableAgg(r, k) == k \in DOMAIN r /\ DOMAIN r[k] # {}

\* C5 as stated (its conclusion): for every report containing both a receiver
\* aggregate and a sender aggregate, prefer_receiver=true returns the receiver
\* values and prefer_receiver=false the sender values.
C5_AsStated ==
    pc = "extract_out" /\ HasAgg(it, "sum_received") /\ HasAgg(it, "sum_sent") =>
        stats = ZeroFilled(IF prefer_receiver THEN it["sum_received"] ELSE it["sum_sent"])

\* C5 amended: the extractor returns the values of the first aggregate
\* sub-record, in the flag's priority order, that is present and not empty; so
\* with both a non-empty receiver and a non-empty sender aggregate,
\* prefer_receiver=true returns the receiver values and prefer_receiver=false
\* the sender values, whatever other keys the report has.
C5_PriorityOrder ==
    pc = "extract_out" =>
        LET ord == AggOrder(prefer_receiver)
            usable == {k \in 1..3 : HasUsableAgg(it, ord[k])}
        IN  /\ usable # {} => stats = ZeroFilled(it[ord[Least(usable)]])
            /\ HasUsableAgg(it, "sum_received") /\ HasUsableAgg(it, "sum_sent") =>
                  stats = ZeroFilled(IF prefer_receiver THEN it["sum_received"]
                                     ELSE it["sum_sent"])

\* C5 witness: a report with three different non-empty aggregates and a streams
\* collection, read with prefer_receiver=true, gave the receiver aggregate.
C5_Witness ==
    /\ pc = "extract_out"
    /\ prefer_receiver
    /\ "streams" \in DOMAIN it
    /\ HasAgg(it, "sum_received") /\ HasAgg(it, "sum") /\ HasAgg(it, "sum_sent")
    /\ it["sum_received"] = AggB /\ it["sum"] = AggOther /\ it["sum_sent"] = AggA
    /\ stats.bps = 3000000

\* The view of a stream the fold reads: the receiver sub-record with
\* prefer_receiver=true; otherwise the sender sub-record, or the receiver one
\* when the sender one is absent or empty.
ViewOf(s, flag) ==
    LET has(k) == k \in DOMAIN s /\ DOMAIN s[k] # {}
    IN  IF flag THEN (IF has("receiver") THEN s["receiver"] ELSE EmptyDict)
        ELSE IF has("sender") THEN s["sender"]
        ELSE IF has("receiver") THEN s["receiver"] ELSE EmptyDict

RECURSIVE SumOver(_, _)
SumOver(S, f) ==
    IF S = {} THEN 0
    ELSE LET x == CHOOSE y \in S : TRUE IN f[x] + SumOver(S \ {x}, f)

\* C6: for a report with no aggregate sub-record and a non-empty streams
\* collection, with either flag, bandwidth_bps is the sum of the streams'
\* bandwidths, end_time the maximum of their end times, and jitter and loss
\* the value of the first stream that defines them (0 when none does).
C6_StreamFold ==
    pc = "extract_out" /\ (\A k \in AggKeys : ~HasAgg(it, k))
                       /\ "streams" \in DOMAIN it /\ Len(it["streams"]) > 0 =>
        LET ss == it["streams"]
            v == [i \in 1..Len(ss) |-> ZeroFilled(ViewOf(ss[i], prefer_receiver))]
            defJ == {i \in 1..Len(ss) : "jitter_ms" \in DOMAIN ViewOf(ss[i], prefer_receiver)}
            defL == {i \in 1..Len(ss) :
                        "lost_percent" \in DOMAIN ViewOf(ss[i], prefer_receiver)}
        IN  /\ stats.bps = SumOver(1..Len(ss), [i \in 1..Len(ss) |-> v[i].bps])
            /\ stats.end = Greatest({v[i].end : i \in 1..Len(ss)})
            /\ stats.jitter_ms = IF defJ = {} THEN 0 ELSE v[Least(defJ)].jitter_ms
            /\ stats.loss_pct = IF defL = {} THEN 0 ELSE v[Least(defL)].loss_pct

\* C6 witness: two streams that both define jitter and loss; the sum of the
\* bandwidths, the larger end and the first stream's jitter and loss came back.
C6_Witness ==
    /\ pc = "extract_out"
    /\ prefer_receiver
    /\ DOMAIN it = {"streams"}
    /\ it["streams"] = <<[receiver |-> RcvB], [sender |-> SndA, receiver |-> RcvA]>>
    /\ stats = [end |-> 30, bps |-> 12000000, jitter_ms |-> 3, loss_pct |-> 50]

\* The intervals of the uplink report, as the collector read them.
UlIntervals == IF "intervals" \in DOMAIN raw THEN raw["intervals"] ELSE <<>>

\* The transcript of the uplink report, as the collector read it.
UlText == IF "server_output_text" \in DOMAIN raw THEN raw["server_output_text"] ELSE <<>>

\* The time the uplink samples are stamped from.
UlStartTs ==
    IF "start" \in DOMAIN raw THEN raw["start"]["timestamp"]["timesecs"]
    ELSE Greatest(WallClock)

\* A report with no usable aggregate sub-record and no streams.
MatchesNothing(r) ==
    /\ \A k \in AggKeys : ~HasUsableAgg(r, k)
    /\ "streams" \in DOMAIN r => Len(r["streams"]) = 0

\* C7: a report with neither an aggregate sub-record nor a streams collection
\* gives the all-zero tuple, a chosen sub-record gives 0 for each value it
\* omits, and in the collector every interval report, matched or not, gives
\* exactly one sample (a bad one gives a zero sample) and the collector ends
\* normally.
C7_ZeroFill ==
    /\ pc = "extract_out" =>
          /\ MatchesNothing(it) => stats = [end |-> 0, bps |-> 0, jitter_ms |-> 0,
                                            loss_pct |-> 0]
          /\ LET ord == AggOrder(prefer_receiver)
                 usable == {k \in 1..3 : HasUsableAgg(it, ord[k])}
             IN  usable # {} =>
                    LET c == it[ord[Least(usable)]]
                    IN  /\ "end" \notin DOMAIN c => stats.end = 0
                        /\ {"bits_per_second", "bps"} \cap DOMAIN c = {} => stats.bps = 0
                        /\ "jitter_ms" \notin DOMAIN c => stats.jitter_ms = 0
                        /\ "lost_percent" \notin DOMAIN c => stats.loss_pct = 0
    /\ pc = "ul_done" =>
          /\ Len(samples_up_sender) = Len(UlIntervals)
          /\ \A i \in 1..Len(UlIntervals) :
                MatchesNothing(UlIntervals[i]) =>
                    samples_up_sender[i] =
                        [timestamp |-> UlStartTs, direction |-> "uplink",
                         bandwidth_bps |-> 0, jitter_ms |-> 0, loss_pct |-> 0]

\* C7 witness: a report whose first interval matches nothing and whose second
\* is a good one gave two samples, the first all zero.
C7_Witness ==
    /\ pc = "ul_done"
    /\ Len(UlIntervals) = 2
    /\ UlIntervals[1] = ItUnknown
    /\ UlIntervals[2] = ItSum2
    /\ Len(samples_up_sender) = 2
    /\ samples_up_sender[1].bandwidth_bps = 0
    /\ samples_up_sender[2].bandwidth_bps = 3000000

\* The kinds of the last n tokens of a line.
TailKinds(line, n) == [k \in 1..n |-> line[Len(line) - n + k].t]

\* A line of the per-interval grammar: it ends with the eleven fields, in order.
IsIntervalLine(line) ==
    Len(line) >= Len(RxPattern) /\ TailKinds(line, Len(RxPattern)) = RxPattern

\* The tuple of a line of the per-interval grammar, read from its end.
TupleOf(line) ==
    LET n == Len(line)
    IN  [start |-> line[n - 9].start, end |-> line[n - 9].end,
         bandwidth_mbps |-> line[n - 5].v, jitter_ms |-> line[n - 3].v,
         loss_pct |-> IF line[n - 1].total > 0 THEN line[n].v ELSE 0]

\* The k-th smallest element of a set of numbers.
RECURSIVE Kth(_, _)
Kth(S, k) == IF k = 1 THEN Least(S) ELSE Kth(S \ {Least(S)}, k - 1)

C9_WindowFilter ==
    pc = "ul_done" =>
        LET kept == SelectSeq(rx_points,
                              LAMBDA p : 2 * p.end <= (2 * duration + 1) * TicksPerSec)
        IN  /\ Len(samples_up_rx) = Len(kept)
            /\ \A k \in 1..Len(kept) :
                  /\ samples_up_rx[k].direction = "uplink_rx"
                  /\ samples_up_rx[k].timestamp = UlStartTs + kept[k].end
                  /\ samples_up_rx[k].bandwidth_bps = kept[k].bandwidth_mbps * 1000000
                  /\ samples_up_rx[k].jitter_ms = kept[k].jitter_ms
                  /\ samples_up_rx[k].loss_pct = kept[k].loss_pct
            /\ Len(samples_up_sender) = Len(UlIntervals)
            /\ \A i \in 1..Len(UlIntervals) : samples_up_sender[i].direction = "uplink"

\* C9 witness: with a duration of 2 s, an interval ending at 2.5 s was kept and
\* one ending at 3.0 s dropped.
C9_Witness ==
    /\ pc = "ul_done"
    /\ duration = 2
    /\ Len(rx_points) = 2
    /\ rx_points[1].end = 30
    /\ rx_points[2].end = 25
    /\ Len(samples_up_rx) = 1
    /\ samples_up_rx[1].timestamp = 525

\* C9 witness of the sender series: a sender interval ending after the window
\* is kept.
C9_SenderKept ==
    /\ pc = "ul_done"
    /\ duration = 1
    /\ Len(samples_up_sender) = 1
    /\ samples_up_sender[1].timestamp = 520

\* A line carries the totals fields: bandwidth, jitter, lost/total and (pct%).
CarriesTotals(line) ==
    \E m \in 1..Len(line) :
        /\ m + 5 <= Len(line)
        /\ [k \in 1..6 |-> line[m + k - 1].t] = TotalsPattern

\* The totals fields of a line that carries them.
FieldsOf(line) ==
    LET m == Least({j \in 1..Len(line) :
                       j + 5 <= Len(line) /\ [k \in 1..6 |-> line[j + k - 1].t] = TotalsPattern})
    IN  [bandwidth_mbps |-> line[m].v, jitter_ms |-> line[m + 2].v,
         lost_percent |-> line[m + 5].v]

\* A final cumulative totals line: a receiver line that carries the fields.
IsTotalsLine(line) == MentionsReceiver(line) /\ CarriesTotals(line)

Exposed == "receiver_totals" \in DOMAIN meta_up

ExposedFields ==
    [bandwidth_mbps |-> meta_up["receiver_totals"].bandwidth_mbps,
     jitter_ms |-> meta_up["receiver_totals"].jitter_ms,
     lost_percent |-> meta_up["receiver_totals"].lost_percent]

\* C10 as stated: totals are exposed if and only if the transcript contains a
\* totals line, and then they are those of the last such line, whatever other
\* lines mentioning the receiver follow or precede it.
C10_AsStated ==
    pc = "ul_done" =>
        LET tl == {i \in 1..Len(UlText) : IsTotalsLine(UlText[i])}
        IN  /\ Exposed <=> tl # {}
            /\ tl # {} /\ Exposed => ExposedFields = FieldsOf(UlText[Greatest(tl)])

\* C10 amended: totals are exposed if and only if the last transcript line that
\* mentions the receiver carries the bandwidth, jitter and lost/total (pct%)
\* fields, and then they are the values of that line; receiver lines before it
\* do not matter, and a later receiver line without the fields suppresses the
\* totals.
C10_LastReceiverLine ==
    pc = "ul_done" =>
        LET rl == {i \in 1..Len(UlText) : MentionsReceiver(UlText[i])}
        IN  /\ rl = {} => ~Exposed
            /\ rl # {} =>
                  LET last == UlText[Greatest(rl)]
                  IN  /\ Exposed <=> CarriesTotals(last)
                      /\ Exposed => ExposedFields = FieldsOf(last)

\* C10 witness: two totals lines and a receiver line without the fields before
\* them: the totals exposed are those of the last totals line.
C10_Witness ==
    /\ pc = "ul_done"
    /\ Len(UlText) = 3
    /\ UlText[1] = LineRecvBare
    /\ UlText[2] = LineTotals
    /\ UlText[3] = LineTotals2
    /\ Exposed
    /\ meta_up["receiver_totals"].bandwidth_mbps = 7
    /\ meta_up["receiver_totals"].lost_percent = 5

\* The positions of the merged list tagged d.
Tagged(d) == {i \in 1..Len(samples) : samples[i].direction = d}

\* The Mbps value of the i-th merged sample.
MbpsAt(i) == samples[i].bandwidth_bps \div 1000000

\* x is the mean of f over the non-empty index set S, as a summary number.
IsMeanOver(x, S, f) == x * Cardinality(S) = Den * SumOver(S, f)

Produced == pc \in {"returned", "written"}

\* C1: with receiver_totals exposed, the produced uplink summary's bandwidth
\* average, avg_jitter_ms and avg_loss_pct are the totals' bandwidth, jitter and
\* lost percent; with none exposed, they are the means over the uplink-tagged
\* samples (0 when there is none).
C1_UplinkAverages ==
    Produced =>
        LET u == result.summary.uplink
            S == Tagged("uplink")
        IN  IF Exposed
            THEN /\ u.bandwidth_mbps.avg = Den * meta_up["receiver_totals"].bandwidth_mbps
                 /\ u.avg_jitter_ms = Den * meta_up["receiver_totals"].jitter_ms
                 /\ u.avg_loss_pct = Den * meta_up["receiver_totals"].lost_percent
            ELSE IF S = {}
            THEN u.bandwidth_mbps.avg = 0 /\ u.avg_jitter_ms = 0 /\ u.avg_loss_pct = 0
            ELSE /\ IsMeanOver(u.bandwidth_mbps.avg, S, [i \in S |-> MbpsAt(i)])
                 /\ IsMeanOver(u.avg_jitter_ms, S, [i \in S |-> samples[i].jitter_ms])
                 /\ IsMeanOver(u.avg_loss_pct, S, [i \in S |-> samples[i].loss_pct])

\* C1 witness: a run with two uplink samples of 1 and 3 Mbps and totals of
\* 5 Mbps, 4 ms, 15 % produced an uplink summary with those three averages.
C1_Witness ==
    /\ pc = "written"
    /\ Exposed
    /\ Cardinality(Tagged("uplink")) = 2
    /\ MbpsAt(1) = 1 /\ MbpsAt(2) = 3
    /\ result.summary.uplink.bandwidth_mbps.avg = 5 * Den
    /\ result.summary.uplink.avg_jitter_ms = 4 * Den
    /\ result.summary.uplink.avg_loss_pct = 15 * Den

\* C2: the override step leaves the uplink summary's num_samples and bandwidth
\* min, max and std, the uplink_rx and downlink summaries and the sample list
\* as build_summary computed them.
C2_OverrideFrame ==
    [][pc = "summarised" =>
          /\ summary'.uplink.num_samples = summary.uplink.num_samples
          /\ summary'.uplink.bandwidth_mbps.min = summary.uplink.bandwidth_mbps.min
          /\ summary'.uplink.bandwidth_mbps.max = summary.uplink.bandwidth_mbps.max
          /\ summary'.uplink.bandwidth_mbps.std = summary.uplink.bandwidth_mbps.std
          /\ summary'.uplink_rx = summary.uplink_rx
          /\ summary'.downlink = summary.downlink
          /\ samples' = samples]_vars

\* C2 witness: the override has run with totals exposed, on a summary whose
\* uplink min and max differ from the totals and whose other directions have
\* samples.
C2_Witness ==
    /\ pc = "overridden"
    /\ Exposed
    /\ summary.uplink.num_samples = 2
    /\ summary.uplink.bandwidth_mbps.avg = 5 * Den
    /\ summary.uplink.bandwidth_mbps.min = 1 * Den
    /\ summary.uplink.bandwidth_mbps.max = 3 * Den
    /\ summary.uplink.bandwidth_mbps.std > 0
    /\ summary.uplink_rx.num_samples = 1
    /\ summary.downlink.num_samples = 1

Summarised == pc \in {"summarised", "overridden", "returned", "written"}

\* r is the floor of the population standard deviation, as a summary number, of
\* f over the index set S of n > 1 elements: (r/Den)^2 <= variance < ((r+1)/Den)^2
\* with variance = (n * sum(x^2) - sum(x)^2) / n^2.
IsPstdevOver(r, S, f) ==
    LET n == Cardinality(S)
        s1 == SumOver(S, f)
        s2 == SumOver(S, [i \in S |-> f[i] * f[i]])
        v == Den * Den * (n * s2 - s1 * s1)
    IN  r >= 0 /\ r * r * n * n <= v /\ v < (r + 1) * (r + 1) * n * n

\* C3: the summary of each direction d is that of the samples tagged d alone:
\* num_samples is their number, min and max their least and greatest bandwidth,
\* std their population standard deviation (0 for fewer than two); the uplink
\* summary counts the sender-derived samples and not the uplink_rx ones.
C3_OwnSamplesOnly ==
    Summarised =>
        /\ \A d \in Directions :
              LET S == Tagged(d)
                  bw == summary[d].bandwidth_mbps
                  f == [i \in S |-> MbpsAt(i)]
              IN  /\ summary[d].num_samples = Cardinality(S)
                  /\ S # {} => /\ bw.min = Den * Least({f[i] : i \in S})
                               /\ bw.max = Den * Greatest({f[i] : i \in S})
                  /\ IF Cardinality(S) > 1 THEN IsPstdevOver(bw.std, S, f) ELSE bw.std = 0
        /\ summary.uplink.num_samples = Len(samples_up_sender)
        /\ summary.uplink_rx.num_samples = Len(samples_up_rx)
        /\ summary.downlink.num_samples = Len(samples_down)

\* C3 witness: a run with two uplink samples of 1 and 3 Mbps, one uplink_rx
\* sample of 2 Mbps and two downlink samples; the uplink summary counts two.
C3_Witness ==
    /\ pc = "written"
    /\ summary.uplink.num_samples = 2
    /\ summary.uplink_rx.num_samples = 1
    /\ summary.downlink.num_samples = 2
    /\ summary.uplink.bandwidth_mbps.max = 3 * Den
    /\ summary.uplink.bandwidth_mbps.min = 1 * Den
    /\ summary.uplink_rx.bandwidth_mbps.min = 2 * Den
    /\ summary.uplink.bandwidth_mbps.std > 0

\* C4: build_summary gives, for a direction with no sample (also when the whole
\* list is empty), num_samples = 0 and 0 for every numeric field.
C4_EmptyDirection ==
    pc = "summarised" =>
        \A d \in Directions :
            Tagged(d) = {} =>
                summary[d] = [num_samples |-> 0,
                              bandwidth_mbps |-> [avg |-> 0, min |-> 0, max |-> 0, std |-> 0],
                              avg_jitter_ms |-> 0, avg_loss_pct |-> 0]

\* C4 witness: build_summary has run on a list with uplink samples only.
C4_Witness ==
    /\ pc = "summarised"
    /\ Len(samples) = 2
    /\ Tagged("uplink_rx") = {}
    /\ Tagged("downlink") = {}
    /\ summary.uplink.num_samples = 2
    /\ summary.downlink.num_samples = 0

\* C4 witness of the empty list.
C4_EmptyList ==
    /\ pc = "summarised"
    /\ samples = <<>>
    /\ summary.uplink.num_samples = 0

\* The block of a direction tag in the merged list: 1 sender-derived uplink,
\* 2 uplink receiver view, 3 downlink.
BlockOf(d) == IF d = "uplink" THEN 1 ELSE IF d = "uplink_rx" THEN 2 ELSE 3

\* C11: the sample list of every Run Result is the uplink sender-derived
\* samples, then the uplink receiver-view samples, then the downlink samples,
\* each block in its collection order; every sample is tagged uplink, uplink_rx
\* or downlink, and no sample of a later block precedes one of an earlier block.
C11_MergeOrder ==
    Produced =>
        LET ms == result.samples
            a == Len(samples_up_sender)
            b == Len(samples_up_rx)
            c == Len(samples_down)
        IN  /\ Len(ms) = a + b + c
            /\ \A i \in 1..a : ms[i] = samples_up_sender[i] /\ ms[i].direction = "uplink"
            /\ \A i \in 1..b : ms[a + i] = samples_up_rx[i]
                               /\ ms[a + i].direction = "uplink_rx"
            /\ \A i \in 1..c : ms[a + b + i] = samples_down[i]
                               /\ ms[a + b + i].direction = "downlink"
            /\ \A i \in 1..Len(ms) : ms[i].direction \in Directions
            /\ \A i, j \in 1..Len(ms) :
                  i < j => BlockOf(ms[i].direction) <= BlockOf(ms[j].direction)

\* C11 witness: a Run Result with two sender-derived samples, one receiver-view
\* sample and two downlink samples, in that order.
C11_Witness ==
    /\ pc = "written"
    /\ Len(result.samples) = 5
    /\ result.samples[1].direction = "uplink"
    /\ result.samples[2].direction = "uplink"
    /\ result.samples[1].timestamp # result.samples[2].timestamp
    /\ result.samples[3].direction = "uplink_rx"
    /\ result.samples[4].direction = "downlink"
    /\ result.samples[5].direction = "downlink"
    /\ result.samples[4] # result.samples[5]


\* The uplink collector has returned its three values.
UlReturned == DOMAIN meta_up # {}

\* The downlink collector has returned its two values.
DlReturned == DOMAIN meta_down # {}

\* C12: a step of the downlink collector (it returns, or fails with its error)
\* starts only where the uplink collector has returned and leaves the uplink
\* collector's values alone; a step of the uplink collector happens only before
\* the downlink collector has done anything and leaves the downlink values alone;
\* the merged list and the summary are written only where both have returned.
C12_Sequential ==
    [][/\ (dlVars' # dlVars \/ pc' = "dl_done"
              \/ (error' # error /\ error'[1] = "iperf3 DL error: "))
          => (pc = "ul_done" /\ UlReturned /\ ~DlReturned /\ ulVars' = ulVars)
       /\ (ulVars' # ulVars \/ pc' = "ul_done")
          => (pc = "start" /\ ~UlReturned /\ ~DlReturned /\ dlVars' = dlVars)
       /\ (samples' # samples \/ summary' # summary)
          => (/\ pc \in {"dl_done", "summarised"}
              /\ UlReturned /\ DlReturned
              /\ ulVars' = ulVars /\ dlVars' = dlVars)]_vars

\* C12 witness: both collectors have returned samples, one after the other, and
\* the merge and the summary build have run on them.
C12_Witness ==
    /\ pc = "summarised"
    /\ UlReturned /\ DlReturned
    /\ Len(samples_up_sender) = 2
    /\ Len(samples_up_rx) = 1
    /\ Len(samples_down) = 2
    /\ Len(samples) = 5
    /\ summary.downlink.num_samples = 2


\* The uplink process has finished with a non-zero status or with a stdout that
\* is not JSON.
UlProcessBad == DOMAIN proc # {} /\ (proc.returncode # 0 \/ ~proc.stdout.json)

\* What the collaborator said: its stderr, or its stdout when stderr is blank.
CollaboratorText ==
    IF proc.stderr.body # "" THEN proc.stderr.body ELSE proc.stdout.text.body

\* The run was aborted at the uplink collector: the downlink collector was never
\* invoked, no summary was built, no Run Result produced, nothing written, and
\* no further step (so no retry) is possible.
AbortedAtUplink ==
    /\ pc = "failed"
    /\ DOMAIN dl_result = {} /\ samples_down = <<>> /\ ~DlReturned
    /\ samples = <<>> /\ DOMAIN summary = {} /\ DOMAIN result = {}
    /\ files = {}
    /\ ~ENABLED Next

\* C13 as stated: after a non-zero exit or an unparsable stdout, the error
\* carries the collaborator's error text and the run is aborted.
C13_AsStated ==
    UlProcessBad =>
        /\ Len(error) = 2 /\ error[2] = CollaboratorText
        /\ AbortedAtUplink

\* C13 amended: after a non-zero exit the error carries the collaborator's
\* error text (stderr, or stdout when stderr is blank); after an exit of 0 with
\* an unparsable stdout it carries the decoder's description of the parse
\* failure and not the collaborator's text; in both cases the run is aborted:
\* no downlink call, no retry, no summary, no Run Result produced or written.
C13_UplinkFailureAborts ==
    UlProcessBad =>
        /\ Len(error) = 2
        /\ IF proc.returncode # 0
           THEN error = <<"iperf3 CLI uplink failed: ", CollaboratorText>>
           ELSE /\ error[1] = "iperf3 CLI uplink returned non-JSON output: "
                /\ error[2] \in {"Expecting value: line 1 column 1 (char 0)",
                                 "Expecting value: line 1 column 2 (char 1)"}
                /\ error[2] # CollaboratorText
        /\ AbortedAtUplink

\* C13 witness: with a raw-uplink path given, the process exited with status 1,
\* a blank stderr and a message on stdout; the run failed with that message and
\* wrote nothing.
C13_Witness ==
    /\ pc = "failed"
    /\ save_ul_raw
    /\ DOMAIN proc # {}
    /\ proc.returncode = 1
    /\ proc.stderr.body = ""
    /\ error = <<"iperf3 CLI uplink failed: ", "error - server busy">>
    /\ files = {}

\* C13 witness of the unparsable stdout: exit 0, stdout not JSON.
C13_NonJson ==
    /\ pc = "failed"
    /\ DOMAIN proc # {}
    /\ proc.returncode = 0
    /\ proc.stdout.text.body = "iperf 3.1"
    /\ error[1] = "iperf3 CLI uplink returned non-JSON output: "


\* The downlink collector failed after the uplink collector had returned.
DownlinkFailedAfterUplink ==
    /\ pc = "failed"
    /\ UlReturned
    /\ error[1] = "iperf3 DL error: "

\* C14 as stated: when the uplink collection completes and the downlink
\* collection then fails, no file holding uplink results has been written,
\* whether or not a raw-uplink save path was given.
C14_AsStated == DownlinkFailedAfterUplink => files = {}


\* client.run() has returned to the downlink collector.
DlRan == DOMAIN dl_result # {}

\* The structured output of the downlink result is there.
DlOutputPresent == DOMAIN dl_result.json # {}

\* The interval reports of the downlink result.
DlIntervals ==
    IF "intervals" \in DOMAIN dl_result.json THEN dl_result.json["intervals"] ELSE <<>>

\* C15 as stated: the downlink collector fails whenever the collaborator
\* reports an error or its structured output is missing; it returns a series
\* only when the output is there, and then one downlink-tagged sample per
\* interval report, extracted with prefer_receiver=true.
C15_AsStated ==
    DlRan =>
        IF dl_result.error # "" \/ ~DlOutputPresent
        THEN pc = "failed" /\ error[1] = "iperf3 DL error: " /\ ~DlReturned
        ELSE /\ DlReturned
             /\ Len(samples_down) = Len(DlIntervals)
             /\ \A i \in 1..Len(DlIntervals) :
                   LET st == _extract_interval_stats(DlIntervals[i], TRUE)
                   IN  /\ samples_down[i].direction = "downlink"
                       /\ samples_down[i].bandwidth_bps = st.bps
                       /\ samples_down[i].jitter_ms = st.jitter_ms
                       /\ samples_down[i].loss_pct = st.loss_pct


\* C16: for every direction, the summary's bandwidth std is never negative, is
\* exactly 0 when the direction has zero or one sample, and otherwise is the
\* population standard deviation of its samples' Mbps values (the square root of
\* the mean squared deviation, divisor N), to the summary's resolution.
C16_PopulationStd ==
    Summarised =>
        \A d \in Directions :
            LET S == Tagged(d)
                n == Cardinality(S)
                sd == summary[d].bandwidth_mbps.std
                total == SumOver(S, [i \in S |-> MbpsAt(i)])
                \* n times the sum of the squared deviations from the mean
                devs == SumOver(S, [i \in S |-> (n * MbpsAt(i) - total)
                                                 * (n * MbpsAt(i) - total)])
            IN  /\ sd >= 0
                /\ n <= 1 => sd = 0
                /\ n > 1 => /\ sd * sd * n * n * n <= Den * Den * devs
                            /\ Den * Den * devs < (sd + 1) * (sd + 1) * n * n * n

\* C16 witness: uplink samples of 1 and 3 Mbps give a std of exactly 1 (the
\* sample-corrected value would be 1.41), a direction with one sample and a
\* direction with none give 0.
C16_Witness ==
    /\ pc = "summarised"
    /\ Cardinality(Tagged("uplink")) = 2
    /\ MbpsAt(1) = 1 /\ MbpsAt(2) = 3
    /\ summary.uplink.bandwidth_mbps.std = Den
    /\ Cardinality(Tagged("uplink_rx")) = 0
    /\ summary.uplink_rx.bandwidth_mbps.std = 0
    /\ Cardinality(Tagged("downlink")) = 1
    /\ summary.downlink.bandwidth_mbps.max = 3 * Den
    /\ summary.downlink.bandwidth_mbps.std = 0


\* A stream entry has a non-empty sub-record under key k.
HasView(s, k) == k \in DOMAIN s /\ DOMAIN s[k] # {}

\* The key of the view C17 selects for a stream: the receiver sub-record with
\* prefer_receiver=true; with false the sender one, or the receiver one when
\* the sender one is absent or empty.
SelectedKey(s, flag) ==
    IF flag THEN "receiver" ELSE IF HasView(s, "sender") THEN "sender" ELSE "receiver"

\* C17: in the per-stream fold (no usable aggregate, a non-empty streams
\* collection), only the streams whose selected sub-record is there
\* contribute, each with the values of that sub-record alone: the bandwidth is
\* the sum and the end time the maximum over them, jitter and loss come from
\* the first of them that defines the value; with prefer_receiver=true a stream
\* without a receiver sub-record contributes nothing even when it has a sender
\* sub-record, and so does a stream that carries its values on the entry.
C17_SelectedView ==
    pc = "extract_out" /\ (\A k \in AggKeys : ~HasUsableAgg(it, k))
                       /\ "streams" \in DOMAIN it /\ Len(it["streams"]) > 0 =>
        LET ss == it["streams"]
            key == [i \in 1..Len(ss) |-> SelectedKey(ss[i], prefer_receiver)]
            on == {i \in 1..Len(ss) : HasView(ss[i], key[i])}
            sub == [i \in on |-> ss[i][key[i]]]
            bw == [i \in on |-> IF "bits_per_second" \in DOMAIN sub[i]
                                THEN sub[i]["bits_per_second"]
                                ELSE IF "bps" \in DOMAIN sub[i] THEN sub[i]["bps"] ELSE 0]
            ends == {IF "end" \in DOMAIN sub[i] THEN sub[i]["end"] ELSE 0 : i \in on}
            defJ == {i \in on : "jitter_ms" \in DOMAIN sub[i]}
            defL == {i \in on : "lost_percent" \in DOMAIN sub[i]}
        IN  /\ stats.bps = SumOver(on, bw)
            /\ stats.end = Greatest(ends \cup {0})
            /\ stats.jitter_ms = IF defJ = {} THEN 0 ELSE sub[Least(defJ)]["jitter_ms"]
            /\ stats.loss_pct = IF defL = {} THEN 0 ELSE sub[Least(defL)]["lost_percent"]
            /\ on = {} => stats = [end |-> 0, bps |-> 0, jitter_ms |-> 0, loss_pct |-> 0]

\* C17 witness: with prefer_receiver=true, a stream with a sender view only and
\* a stream with both views gave the second stream's receiver values alone.
C17_Witness ==
    /\ pc = "extract_out"
    /\ prefer_receiver
    /\ DOMAIN it = {"streams"}
    /\ it["streams"] = <<[sender |-> SndA], [sender |-> SndB, receiver |-> RcvB]>>
    /\ stats = [end |-> 5, bps |-> 8000000, jitter_ms |-> 3, loss_pct |-> 50]

\* C17 witness of the fallback: with prefer_receiver=false, a stream with an
\* empty sender view and a receiver view gave the receiver values.
C17_Fallback ==
    /\ pc = "extract_out"
    /\ ~prefer_receiver
    /\ DOMAIN it = {"streams"}
    /\ it["streams"] = <<[sender |-> EmptyDict, receiver |-> RcvA]>>
    /\ stats.bps = 4000000

\* C17 witness of the values carried on the entry: they are not read.
C17_Direct ==
    /\ pc = "extract_out"
    /\ DOMAIN it = {"streams"}
    /\ Len(it["streams"]) = 1
    /\ "bits_per_second" \in DOMAIN it["streams"][1]
    /\ stats = [end |-> 0, bps |-> 0, jitter_ms |-> 0, loss_pct |-> 0]


\* The bandwidth average of a Direction Summary lies between its min and max.
AvgWithinRange(ds) ==
    /\ ds.bandwidth_mbps.min <= ds.bandwidth_mbps.avg
    /\ ds.bandwidth_mbps.avg <= ds.bandwidth_mbps.max

\* C18 as stated: in every Run Result each Direction Summary with at least one
\* sample has min <= avg <= max, the uplink one included, whether or not
\* Authoritative Totals were applied.
C18_AsStated ==
    Produced =>
        \A d \in Directions :
            result.summary[d].num_samples >= 1 => AvgWithinRange(result.summary[d])

\* C18 amended: in every Run Result the uplink_rx and downlink summaries with at
\* least one sample have min <= avg <= max, and so does the uplink summary when
\* no Authoritative Totals were applied; build_summary's own result, before the
\* override, has it for all three directions.
C18_AvgWithinRange ==
    /\ Produced =>
          \A d \in Directions :
              /\ result.summary[d].num_samples >= 1
              /\ d = "uplink" => ~Exposed
              => AvgWithinRange(result.summary[d])
    /\ pc = "summarised" =>
          \A d \in Directions :
              summary[d].num_samples >= 1 => AvgWithinRange(summary[d])

\* C18 witness: a Run Result with totals of 5 Mbps applied over uplink samples
\* of 1 and 3 Mbps (avg 5 above max 3), while the downlink summary of two
\* samples has min < avg < max.
C18_Witness ==
    /\ pc = "written"
    /\ Exposed
    /\ result.summary.uplink.num_samples = 2
    /\ result.summary.uplink.bandwidth_mbps.max = 3 * Den
    /\ result.summary.uplink.bandwidth_mbps.avg = 5 * Den
    /\ result.summary.uplink_rx.num_samples = 1
    /\ result.summary.downlink.num_samples = 2
    /\ result.summary.downlink.bandwidth_mbps.min < result.summary.downlink.bandwidth_mbps.avg
    /\ result.summary.downlink.bandwidth_mbps.avg < result.summary.downlink.bandwidth_mbps.max

\* C18 witness without totals: the uplink average of 1 and 3 Mbps is 2.
C18_NoTotals ==
    /\ pc = "written"
    /\ ~Exposed
    /\ result.summary.uplink.num_samples = 2
    /\ result.summary.uplink.bandwidth_mbps.min = 1 * Den
    /\ result.summary.uplink.bandwidth_mbps.avg = 2 * Den
    /\ result.summary.uplink.bandwidth_mbps.max = 3 * Den

====
